---- MODULE Spec2Model ----
(***************************************************************************)
(* Model of the loss of imitation/algorithms/bc.py (BC._calculate_loss):   *)
(* the ActorCriticPolicy branch, lines 302-324, and the set-matching       *)
(* branch, lines 326-512, with the batch iterator of lines 78-180.         *)
(*                                                                         *)
(* Numbers are float32, as torch computes on the CPU (IEEE 754, round to    *)
(* nearest even after every operation); the solver works on doubles.       *)
(* th.sum adds in memory order.  Indices are 1-based: row/column k of the  *)
(* model is index k-1 of the code.  A tensor of shape (N, K, L) is a       *)
(* sequence of N sequences of K sequences of L numbers.                    *)
(***************************************************************************)
EXTENDS Integers, Sequences, FiniteSets

(***************************************************************************)
(* float32 arithmetic (torch computes on float32 tensors).  A number is    *)
(* <<m, e>>, the value m * 2^e, with e <= 0 and m odd when e < 0; a        *)
(* float32 has at most 24 significant bits and no bit below 2^-149.  Every *)
(* operation is the exact result rounded to the nearest float32, ties to   *)
(* even, as IEEE 754 asks of +, -, * and /: to 24 bits, and to the         *)
(* multiples of 2^-149 below 2^-125 (the subnormal numbers, and 0 when the *)
(* result underflows).  -0.0 is 0.0, which it equals in every comparison   *)
(* the code makes.  A value of magnitude 2^31 or more cannot be written:   *)
(* the evaluator raises on it, well before float32 overflows at 2^128.     *)
(***************************************************************************)
Abs(n) == IF n < 0 THEN -n ELSE n
Sign(n) == IF n < 0 THEN -1 ELSE 1
Min(a, b) == IF a < b THEN a ELSE b
Max(a, b) == IF a < b THEN b ELSE a

RECURSIVE Pow2(_)
Pow2(k) == IF k = 0 THEN 1 ELSE 2 * Pow2(k - 1)
\* The number of bits of n >= 0.
RECURSIVE BitLen(_)
BitLen(n) == IF n = 0 THEN 0 ELSE 1 + BitLen(n \div 2)

\* The number m * 2^e in the form the model keeps.
RECURSIVE Canon(_, _)
Canon(m, e) ==
    IF m = 0 THEN <<0, 0>>
    ELSE IF e > 0 THEN Canon(2 * m, e - 1)
    ELSE IF e < 0 /\ m % 2 = 0 THEN Canon(m \div 2, e + 1)
    ELSE <<m, e>>
\* The same number with an odd m (and any e); 0 stays <<0, 0>>.
RECURSIVE OddForm(_)
OddForm(x) ==
    IF x[1] = 0 \/ x[1] % 2 = 1 THEN x ELSE OddForm(<<x[1] \div 2, x[2] + 1>>)

I(n) == <<n, 0>>
Zero == <<0, 0>>
One == <<1, 0>>
\* +infinity inside the assignment solver (no number has e > 0).
Inf == <<1, 1>>
\* The integer n as a float32 constant is itself for |n| < 2^24.
Neg(x) == <<-x[1], x[2]>>

\* The least exponent of a float32: its subnormal numbers are the multiples
\* of 2^MinExp below 2^-126.
MinExp == -149
\* The float32 nearest to s * M * 2^E, where M >= 0 and, when sticky, the
\* exact value lies strictly between M and M + 1 (then M has 26 bits or
\* more); ties go to the even mantissa.  The bits kept are the leading 24,
\* or those down to 2^MinExp when that leaves fewer.
RoundToFloat32(s, M, E, sticky) ==
    LET shift == Max(BitLen(M) - 24, MinExp - E)
    IN  IF shift <= 0 THEN Canon(s * M, E)
        ELSE IF shift > BitLen(M) THEN Zero
        ELSE LET q == M \div Pow2(shift)
                 r == M % Pow2(shift)
                 half == Pow2(shift - 1)
                 up == r > half \/ (r = half /\ (sticky \/ q % 2 = 1))
             IN  Canon(s * (IF up THEN q + 1 ELSE q), E + shift)

\* x + y for operands whose bits lie more than 30 positions apart: b is the
\* operand of the larger magnitude, s the other; b is kept with 27 bits and
\* s, which lies below them, decides the rounding only.
AddFar(b, s) ==
    LET t == BitLen(Abs(b[1])) + b[2] - 27
        X == Abs(b[1]) * Pow2(b[2] - t)
        k == t - s[2]
        Yq == IF k > 24 THEN 0 ELSE Abs(s[1]) \div Pow2(k)
    IN  IF Sign(b[1]) = Sign(s[1])
        THEN RoundToFloat32(Sign(b[1]), X + Yq, t, TRUE)
        ELSE RoundToFloat32(Sign(b[1]), X - Yq - 1, t, TRUE)

\* float32 addition.
RAdd(x0, y0) ==
    IF x0[1] = 0 THEN y0
    ELSE IF y0[1] = 0 THEN x0
    ELSE LET x == OddForm(x0)
             y == OddForm(y0)
             tx == BitLen(Abs(x[1])) + x[2]
             ty == BitLen(Abs(y[1])) + y[2]
             e == Min(x[2], y[2])
         IN  IF Max(tx, ty) - e <= 29
             THEN LET M == x[1] * Pow2(x[2] - e) + y[1] * Pow2(y[2] - e)
                  IN  RoundToFloat32(Sign(M), Abs(M), e, FALSE)
             ELSE IF tx > ty THEN AddFar(x, y) ELSE AddFar(y, x)
\* float32 subtraction.
RSub(x, y) == RAdd(x, Neg(y))

\* The product of two odd 24-bit numbers a and b that does not fit 30 bits:
\* its leading 27 bits, the exponent of the last of them, and whether bits
\* are lost below.
WideProduct(a, b) ==
    LET a1 == a \div 4096
        a0 == a % 4096
        b1 == b \div 4096
        b0 == b % 4096
        t1 == a1 * b0 + a0 * b1 + (a0 * b0) \div 4096
        H == a1 * b1 + t1 \div 4096
        Lo == (t1 % 4096) * 4096 + ((a0 * b0) % 4096)
        k == 27 - BitLen(H)
    IN  [M |-> H * Pow2(k) + Lo \div Pow2(24 - k),
         E |-> 24 - k,
         sticky |-> Lo % Pow2(24 - k) # 0]
\* float32 multiplication.
RMul(x0, y0) ==
    IF x0[1] = 0 \/ y0[1] = 0 THEN Zero
    ELSE LET x == OddForm(x0)
             y == OddForm(y0)
             a == Abs(x[1])
             b == Abs(y[1])
             s == Sign(x[1]) * Sign(y[1])
         IN  IF BitLen(a) + BitLen(b) <= 30
             THEN RoundToFloat32(s, a * b, x[2] + y[2], FALSE)
             ELSE LET w == WideProduct(a, b)
                  IN  RoundToFloat32(s, w.M, x[2] + y[2] + w.E, w.sticky)
RSq(a) == RMul(a, a)

\* Long division of r * 2^n by b, one bit of the quotient q at a time, until
\* q has 27 bits or the division is exact.
RECURSIVE DivBits(_, _, _, _)
DivBits(q, r, b, n) ==
    IF r = 0 \/ BitLen(q) >= 27 THEN [q |-> q, r |-> r, n |-> n]
    ELSE IF 2 * r >= b THEN DivBits(2 * q + 1, 2 * r - b, b, n + 1)
    ELSE DivBits(2 * q, 2 * r, b, n + 1)
\* float32 division.
RDiv(x0, y0) ==
    IF x0[1] = 0 THEN Zero
    ELSE LET x == OddForm(x0)
             y == OddForm(y0)
             a == Abs(x[1])
             b == Abs(y[1])
             d == DivBits(a \div b, a % b, b, 0)
         IN  RoundToFloat32(Sign(x[1]) * Sign(y[1]), d.q, x[2] - y[2] - d.n, d.r # 0)
\* A float32 tensor divided by the Python int k (lines 390-392).
RDivInt(a, k) == RDiv(a, I(k))
\* The float32 nearest to the ratio n/d of two integers.
Rat(n, d) == RDiv(I(n), I(d))

\* float64 arithmetic (numpy and scipy compute on doubles).  The sum and the
\* difference of float32 numbers that the evaluator can hold are exact in a
\* double.
DAdd(x, y) ==
    LET e == Min(x[2], y[2])
    IN  Canon(x[1] * Pow2(x[2] - e) + y[1] * Pow2(y[2] - e), e)
DSub(x, y) == DAdd(x, Neg(y))
RLess(x, y) ==
    IF x = Inf THEN FALSE
    ELSE IF y = Inf THEN TRUE
    ELSE LET e == Min(x[2], y[2])
         IN  x[1] * Pow2(x[2] - e) < y[1] * Pow2(y[2] - e)

\* th.sum: the elements are added in index order.
RECURSIVE SumFrom(_, _, _)
SumFrom(s, k, acc) == IF k > Len(s) THEN acc ELSE SumFrom(s, k + 1, RAdd(acc, s[k]))
SumSeq(s) == SumFrom(s, 1, Zero)

\* th.round: round half to even.
Round(a) ==
    IF a[2] = 0 THEN a
    ELSE IF a[2] < -30 THEN Zero
    ELSE LET d == Pow2(-a[2])
             fl == a[1] \div d
             rem == a[1] % d
         IN  IF rem < d - rem THEN I(fl)
             ELSE IF rem > d - rem THEN I(fl + 1)
             ELSE IF fl % 2 = 0 THEN I(fl) ELSE I(fl + 1)

\* The sequence f, as an explicit tuple (evaluated once).
Tup(f) == f \o <<>>

(***************************************************************************)
(* scipy.optimize.linear_sum_assignment, as called at line 430: the        *)
(* shortest-augmenting-path solver of scipy's rectangular_lsap.  The cost  *)
(* matrix has nr <= nc rows here (rows are only ever deleted from a K x K  *)
(* matrix), so the transposition done for tall matrices never happens;     *)
(* costs are finite, so the infeasible exit is never taken.  0 plays the   *)
(* role of the code's -1 ("no row"/"no column").                           *)
(***************************************************************************)
RECURSIVE ScanRemaining(_, _, _)
ScanRemaining(cost, s, it) ==
    IF it > s.num_remaining THEN s
    ELSE LET j == s.remaining[it]
             r == DSub(DSub(DAdd(s.minVal, cost[s.i][j]), s.u[s.i]), s.v[j])
             better == RLess(r, s.shortestPathCosts[j])
             spc == IF better THEN r ELSE s.shortestPathCosts[j]
             take == \/ RLess(spc, s.lowest)
                     \/ (spc = s.lowest /\ s.row4col[j] = 0)
         IN  ScanRemaining(cost,
                 [s EXCEPT !.path = IF better THEN [@ EXCEPT ![j] = s.i] ELSE @,
                           !.shortestPathCosts = [@ EXCEPT ![j] = spc],
                           !.lowest = IF take THEN spc ELSE @,
                           !.index = IF take THEN it ELSE @],
                 it + 1)

\* The end of one round of the search: the column with the lowest path cost
\* leaves `remaining`; it is the sink when no row holds it, otherwise the
\* search goes on from the row that holds it.
LeaveRemaining(t) ==
    LET j == t.remaining[t.index]
        free == t.row4col[j] = 0
    IN  [t EXCEPT !.minVal = t.lowest,
                  !.sink = IF free THEN j ELSE 0,
                  !.i = IF free THEN @ ELSE t.row4col[j],
                  !.SC = @ \cup {j},
                  !.remaining = [@ EXCEPT ![t.index] = t.remaining[t.num_remaining]],
                  !.num_remaining = @ - 1]

RECURSIVE augmenting_path(_, _)
augmenting_path(cost, s) ==
    IF s.sink # 0 THEN s
    ELSE augmenting_path(cost,
             LeaveRemaining(ScanRemaining(cost,
                 [s EXCEPT !.index = 0, !.lowest = Inf, !.SR = @ \cup {s.i}], 1)))

\* The state a search for row curRow starts from.
StartPath(d, curRow, nc) ==
    [u |-> d.u, v |-> d.v, path |-> d.path, row4col |-> d.row4col,
     shortestPathCosts |-> Tup([j \in 1..nc |-> Inf]),
     SR |-> {}, SC |-> {},
     remaining |-> Tup([it \in 1..nc |-> nc - it + 1]),
     num_remaining |-> nc, minVal |-> Zero, i |-> curRow,
     sink |-> 0, lowest |-> Inf, index |-> 0]

RECURSIVE Augment(_, _, _, _, _)
Augment(path, row4col, col4row, j, curRow) ==
    LET i == path[j]
    IN  IF i = curRow
        THEN [row4col |-> [row4col EXCEPT ![j] = i], col4row |-> [col4row EXCEPT ![i] = j]]
        ELSE Augment(path, [row4col EXCEPT ![j] = i], [col4row EXCEPT ![i] = j],
                     col4row[i], curRow)

\* After the search a for row curRow: the dual variables are updated and the
\* matching is augmented along the path found.
UpdateDuals(d, a, curRow) ==
    [u |-> Tup([i \in 1..Len(d.u) |->
              IF i = curRow THEN DAdd(d.u[i], a.minVal)
              ELSE IF i \in a.SR
                   THEN DAdd(d.u[i], DSub(a.minVal, a.shortestPathCosts[d.col4row[i]]))
                   ELSE d.u[i]]),
     v |-> Tup([j \in 1..Len(d.v) |->
              IF j \in a.SC
              THEN DSub(d.v[j], DSub(a.minVal, a.shortestPathCosts[j]))
              ELSE d.v[j]]),
     path |-> a.path,
     match |-> Augment(a.path, d.row4col, d.col4row, a.sink, curRow)]
Matched(d) ==
    [u |-> d.u, v |-> d.v, path |-> d.path,
     row4col |-> d.match.row4col, col4row |-> d.match.col4row]

RECURSIVE SolveRows(_, _, _)
SolveRows(cost, d, curRow) ==
    IF curRow > Len(cost) THEN d
    ELSE SolveRows(cost,
             Matched(UpdateDuals(d,
                 augmenting_path(cost, StartPath(d, curRow, Len(cost[1]))), curRow)),
             curRow + 1)

\* The state the solver starts from: nothing matched.
StartSolve(nr, nc) ==
    [u |-> Tup([i \in 1..nr |-> Zero]), v |-> Tup([j \in 1..nc |-> Zero]),
     path |-> Tup([j \in 1..nc |-> 0]),
     row4col |-> Tup([j \in 1..nc |-> 0]),
     col4row |-> Tup([i \in 1..nr |-> 0])]

\* Returns the row indices 1..nr and the column assigned to each of them.
linear_sum_assignment(cost) ==
    IF Len(cost) = 0 THEN [row_ind |-> <<>>, col_ind |-> <<>>]
    ELSE [row_ind |-> Tup([i \in 1..Len(cost) |-> i]),
          col_ind |-> SolveRows(cost, StartSolve(Len(cost), Len(cost[1])), 1).col4row]

(***************************************************************************)
(* Tensor helpers: Python slicing, MSELoss(reduction='none') with torch    *)
(* broadcasting, th.sum.                                                   *)
(***************************************************************************)
\* v[lo:hi] for 0 <= lo <= hi: out-of-range bounds are clipped, never an error.
PySlice(v, lo, hi) ==
    LET a == Min(lo, Len(v))
        b == Min(hi, Len(v))
    IN  Tup([k \in 1..(b - a) |-> v[a + k]])

\* t[:, i, lo:hi], a tensor of shape (N, len).
SliceTraj(t, i, lo, hi) == Tup([n \in 1..Len(t) |-> PySlice(t[n][i], lo, hi)])
\* t[:, i, 0:-1]
AllButLast(t, i) == Tup([n \in 1..Len(t) |-> SubSeq(t[n][i], 1, Len(t[n][i]) - 1)])
\* t[:, i, -2] and t[:, :, -1]
TimeOf(t, i) == Tup([n \in 1..Len(t) |-> t[n][i][Len(t[n][i]) - 1]])
LastOf(t) ==
    Tup([n \in 1..Len(t) |-> Tup([j \in 1..Len(t[n]) |-> t[n][j][Len(t[n][j])]])])

\* Two sizes broadcast when they are equal or one of them is 1.
Broadcastable(l1, l2) == l1 = l2 \/ l1 = 1 \/ l2 = 1
BroadcastLen(l1, l2) == IF l1 = 1 THEN l2 ELSE l1
Pick(l, k) == IF l = 1 THEN 1 ELSE k

\* MSELoss(reduction='none') on two 1-D tensors: elementwise squared difference.
MSELossNone1(x, y) ==
    LET lx == Len(x)
        ly == Len(y)
    IN  Tup([k \in 1..BroadcastLen(lx, ly) |->
            RSq(RSub(x[Pick(lx, k)], y[Pick(ly, k)]))])
\* ... on two 2-D tensors.
MSELossNone2(x, y) ==
    LET lx == Len(x)
        ly == Len(y)
    IN  Tup([n \in 1..BroadcastLen(lx, ly) |->
            MSELossNone1(x[Pick(lx, n)], y[Pick(ly, n)])])
\* th.sum(m, dim=1)
SumDim1(m) == Tup([n \in 1..Len(m) |-> SumSeq(m[n])])

(***************************************************************************)
(* Shapes of the two tensors (lines 341-343 read them from acts).          *)
(***************************************************************************)
BatchSize(t) == Len(t)
NumTraj(t) == Len(t[1])
NumElems(t) == Len(t[1][1])

(***************************************************************************)
(* Lines 375-393: the four distance matrices.  Each Column* is the vector  *)
(* (one entry per batch item) the code assigns to matrix[:, i, j]; the     *)
(* time distance sums over dim 0, the batch, and is one scalar per (i, j). *)
(***************************************************************************)
ColumnFull(a, p, i, j) ==
    LET m == SumDim1(MSELossNone2(AllButLast(a, i), AllButLast(p, j)))
    IN  Tup([n \in 1..Len(m) |-> RDivInt(m[n], NumElems(a))])
ColumnPos(a, p, i, j, P) ==
    LET m == SumDim1(MSELossNone2(SliceTraj(a, i, 0, P), SliceTraj(p, j, 0, P)))
    IN  Tup([n \in 1..Len(m) |-> RDivInt(m[n], P)])
ColumnYaw(a, p, i, j, P, Y) ==
    LET m == SumDim1(MSELossNone2(SliceTraj(a, i, P, P + Y), SliceTraj(p, j, P, P + Y)))
    IN  Tup([n \in 1..Len(m) |-> RDivInt(m[n], Y)])
ScalarTime(a, p, i, j) == SumSeq(MSELossNone1(TimeOf(a, i), TimeOf(p, j)))

\* matrix[:, i, j] = column, for all i, j in range(K): a (N, K, K) tensor.
FillMatrix(N, K, Col(_, _)) ==
    LET cols == Tup([i \in 1..K |-> Tup([j \in 1..K |-> Col(i, j)])])
    IN  Tup([n \in 1..N |-> Tup([i \in 1..K |-> Tup([j \in 1..K |->
            cols[i][j][Pick(Len(cols[i][j]), n)]])])])

DistanceMatrix(a, p) ==
    LET Col(i, j) == ColumnFull(a, p, i, j)
    IN  FillMatrix(BatchSize(a), NumTraj(a), Col)
DistancePosMatrix(a, p, P) ==
    LET Col(i, j) == ColumnPos(a, p, i, j, P)
    IN  FillMatrix(BatchSize(a), NumTraj(a), Col)
DistanceYawMatrix(a, p, P, Y) ==
    LET Col(i, j) == ColumnYaw(a, p, i, j, P, Y)
    IN  FillMatrix(BatchSize(a), NumTraj(a), Col)
DistanceTimeMatrix(a, p) ==
    LET K == NumTraj(a)
        t == Tup([i \in 1..K |-> Tup([j \in 1..K |-> ScalarTime(a, p, i, j)])])
    IN  Tup([n \in 1..BatchSize(a) |-> t])

\* The exception lines 375-393 raise, "" when they raise none.  The shapes
\* do not depend on i and j, so what fails for them fails in the first
\* iteration (i = j = 0): first the index -2 of lines 387-388, on a vector
\* of fewer than two elements, then the broadcasting of lines 390-393;
\* indexing pred_acts[:, j] fails only later, when j reaches the predicted
\* set size.
SliceLen(lo, hi, L) == Min(hi, L) - Min(lo, L)
CostLoopError(a, p, P, Y) ==
    LET N == BatchSize(a)
        Np == BatchSize(p)
        L == NumElems(a)
        Lp == NumElems(p)
    IN  IF L < 2 \/ Lp < 2 THEN "IndexError"
        ELSE IF \/ ~Broadcastable(N, Np)
                \/ (BroadcastLen(N, Np) # N /\ BroadcastLen(N, Np) # 1)
                \/ ~Broadcastable(L - 1, Lp - 1)
                \/ ~Broadcastable(SliceLen(0, P, L), SliceLen(0, P, Lp))
                \/ ~Broadcastable(SliceLen(P, P + Y, L), SliceLen(P, P + Y, Lp))
        THEN "RuntimeError"
        ELSE IF NumTraj(p) < NumTraj(a) THEN "IndexError"
        ELSE ""

(***************************************************************************)
(* Lines 407-438: the assignment.                                          *)
(***************************************************************************)
\* th.ones / th.zeros of shape (N, K, K) (lines 407, 413).
th_ones(N, K) == Tup([n \in 1..N |-> Tup([i \in 1..K |-> Tup([j \in 1..K |-> One])])])
th_zeros(N, K) == Tup([n \in 1..N |-> Tup([i \in 1..K |-> Tup([j \in 1..K |-> Zero])])])

\* A variant of rows_to_delete that deletes every row whose rounded indicator
\* is not +1; the rows that take part in the assignment (C15) tell the two
\* apart.
rows_not_plus_one(a, n) ==
    {i \in 1..Len(a[n]) : Round(a[n][i][Len(a[n][i])]) # One}

\* Lines 419-424: the expert rows whose rounded existence indicator is -1.
rows_to_delete(a, n) ==
    {i \in 1..Len(a[n]) : Round(a[n][i][Len(a[n][i])]) = I(-1)}

\* np.delete(range(K), rows, axis=0) (lines 416, 428): the kept rows, in order.
map2RealRows(K, rows) == SelectSeq(Tup([i \in 1..K |-> i]), LAMBDA i : i \notin rows)
\* Line 417: columns are never deleted.
map2RealCols(K) == Tup([j \in 1..K |-> j])

\* A variant of cost_matrix that keeps the first rows instead of the rows that
\* are not deleted; the optimality of the assignment (C2) tells the two apart.
cost_matrix_first_rows(pos_n, rows) ==
    Tup([r \in 1..(Len(pos_n) - Cardinality(rows)) |-> pos_n[r]])

\* np.delete(cost_matrix, rows_to_delete, axis=0) (lines 415, 427).
cost_matrix(pos_n, rows) ==
    LET keep == map2RealRows(Len(pos_n), rows)
    IN  Tup([r \in 1..Len(keep) |-> pos_n[keep[r]]])

\* A variant of AlphaRow that forgets map2RealRows and writes the solver's row
\* index as it is; the structure of alpha_matrix (C1) tells the two apart.
AlphaRowUnmapped(keep, row_index) == row_index

\* Line 432: the entry of alpha_matrix[index_batch] that a solver pair sets.
AlphaRow(keep, row_index) == keep[row_index]

\* Line 431-432: alpha_n with the entry of every solver pair set to 1.
SetPairs(alpha_n, keep, cols, sol) ==
    Tup([i \in 1..Len(alpha_n) |-> Tup([j \in 1..Len(alpha_n) |->
        IF \E r \in 1..Len(sol.row_ind) :
              /\ AlphaRow(keep, sol.row_ind[r]) = i
              /\ cols[sol.col_ind[r]] = j
        THEN One ELSE alpha_n[i][j]])])

\* Lines 415-432 for one item: alpha_n with the solver's pairs set to 1.
AssignItem(alpha_n, pos_n, a, n) ==
    SetPairs(alpha_n, map2RealRows(Len(alpha_n), rows_to_delete(a, n)),
             map2RealCols(Len(alpha_n)),
             linear_sum_assignment(cost_matrix(pos_n, rows_to_delete(a, n))))

\* Lines 436-438.
ColAssigned(alpha) ==
    Tup([n \in 1..Len(alpha) |-> Tup([j \in 1..Len(alpha[n]) |->
        Round(SumSeq(Tup([i \in 1..Len(alpha[n]) |-> alpha[n][i][j]])))])])
ColNotAssigned(ca) ==
    Tup([n \in 1..Len(ca) |-> Tup([j \in 1..Len(ca[n]) |->
        IF ca[n][j] # Zero THEN Zero ELSE One])])

(***************************************************************************)
(* Lines 469-510: the aggregation.                                         *)
(***************************************************************************)
\* The elements of a tensor of two dimensions in memory order, row after row.
RECURSIVE Flatten(_)
Flatten(t) == IF t = <<>> THEN <<>> ELSE Head(t) \o Flatten(Tail(t))
\* x * y for two tensors of shape (N, K), in memory order.
Prod2(x, y) ==
    Flatten(Tup([n \in 1..Len(x) |->
        Tup([j \in 1..Len(x[n]) |-> RMul(x[n][j], y[n][j])])]))
\* th.sum(x * y) for two tensors of shape (N, K), and of shape (N, K, K).
SumProd2(x, y) == SumSeq(Prod2(x, y))
SumProd3(x, y) == SumSeq(Flatten(Tup([n \in 1..Len(x) |-> Prod2(x[n], y[n])])))

\* MSELoss(reduction='none')(student_probs, target * ones).
ProbError(student_probs, target) ==
    Tup([n \in 1..Len(student_probs) |-> Tup([j \in 1..Len(student_probs[n]) |->
        RSq(RSub(student_probs[n][j], target))])])

\* Line 486: a Python float, which enters the products of lines 488-495 as
\* the float32 nearest to it.
norm_constant(N, K) == Rat(1, N * K)

\* Lines 488, 493-495.
MatchedCost(N, K, alpha, dist) == RMul(norm_constant(N, K), SumProd3(alpha, dist))

\* A variant of ProbLoss that normalizes both sums (C6 tells the two apart).
ProbLossNormalized(N, K, ca, cna, student_probs) ==
    RMul(norm_constant(N, K),
         RAdd(SumProd2(ca, ProbError(student_probs, One)),
              SumProd2(cna, ProbError(student_probs, I(-1)))))

\* Line 489: the first sum is normalized, the second is not.
ProbLoss(N, K, ca, cna, student_probs) ==
    RAdd(RMul(norm_constant(N, K), SumProd2(ca, ProbError(student_probs, One))),
         SumProd2(cna, ProbError(student_probs, I(-1))))

\* A variant of TotalLoss that forgets weight_prob (C5 tells the two apart).
TotalLossUnweighted(full, w, prob) == RAdd(full, prob)

\* Line 497.
TotalLoss(full, w, prob) == RAdd(full, RMul(w, prob))

\* The exception lines 479-489 raise, "" when they raise none: the shape
\* asserts, then the read of col_assigned, which is bound only when K > 1.
AggregateError(a, p) ==
    IF BatchSize(a) # BatchSize(p) THEN "AssertionError"
    ELSE IF NumTraj(a) # NumTraj(p) THEN "AssertionError"
    ELSE IF NumTraj(a) = 1 THEN "UnboundLocalError"
    ELSE ""

(***************************************************************************)
(* Lines 303-324: the loss of an ActorCriticPolicy.                        *)
(***************************************************************************)
\* th.exp, as the table of its float32 values on the log-probabilities the
\* model draws (LogProbs); it is not defined on any other number.
Exp(x) ==
    CASE x = I(-3) -> <<6682307, -27>>
      [] x = I(-2) -> <<9082197, -26>>
      [] x = I(-1) -> <<6171993, -24>>
      [] x = <<-1, -1>> -> <<1271987, -21>>
      [] x = Zero -> One
      [] x = One -> <<2850325, -20>>
\* Tensor.mean(): the float32 sum divided by the number of elements.
Mean(v) == RDivInt(SumSeq(v), Len(v))
\* Line 309: Python's sum of the squared norms, halved.
HalfSum(l2_norms) == RDivInt(SumSeq(l2_norms), 2)
\* Lines 304-324: stats_dict, from the log-probabilities and entropies that
\* policy.evaluate_actions returned and the squared norms of the parameters.
ActorCriticStats(ev, ew, lw) ==
    LET log_prob == Mean(ev.log_prob)
        entropy == Mean(ev.entropy)
        l2_norm == HalfSum(ev.l2_norms)
        ent_loss == RMul(Neg(ew), entropy)
        neglogp == Neg(log_prob)
        l2_loss == RMul(lw, l2_norm)
    IN  [neglogp |-> neglogp,
         loss |-> RAdd(RAdd(neglogp, ent_loss), l2_loss),
         entropy |-> entropy,
         ent_loss |-> ent_loss,
         prob_true_act |-> Mean(Tup([n \in 1..Len(ev.log_prob) |-> Exp(ev.log_prob[n])])),
         l2_norm |-> l2_norm,
         l2_loss |-> l2_loss]

(***************************************************************************)
(* Inputs.  The engine is configured once (BC.__init__, lines 231-233) and *)
(* then called on batches: acts is the expert batch, pred_acts what        *)
(* self.policy.forward returns (line 327), which the model takes as given. *)
(***************************************************************************)
MaxN == 2
MaxK == 3
MaxCells == 4

Q(v) == [k \in 1..Len(v) |-> I(v[k])]

\* (P, Y, weight_prob); weight_prob defaults to 0.01 (line 205), a Python
\* float that enters the product of line 497 as the float32 nearest to it.
\* ent_weight and l2_weight default to 1e-3 and 0.0 (lines 199-200).
Configs ==
    { [P |-> 1, Y |-> 1, w |-> Rat(1, 100), ent |-> Rat(1, 1000), l2 |-> Zero],
      [P |-> 3, Y |-> 1, w |-> Rat(1, 100), ent |-> Rat(1, 1000), l2 |-> Rat(1, 2)] }
\* Line 302 asks whether self.policy is an ActorCriticPolicy; the default
\* policy (lines 249-256) is one.
PolicyClasses == {"ActorCriticPolicy", "BasePolicy"}

\* Trajectories [position..., yaw..., time, existence] of length 4 and 6.
ExpertPool(L) ==
    IF L = 4 THEN { Q(<<0, 0, 0, 1>>), Q(<<1, 1, 1, 1>>), Q(<<1, 0, 0, -1>>) }
    ELSE { Q(<<1, 1, 1, 0, 0, 1>>), Q(<<-2, -2, 1, 0, 0, 1>>) }
StudentPool(L) ==
    IF L = 4 THEN { Q(<<0, 0, 0, 1>>), Q(<<1, 1, 1, 1>>), Q(<<2, 1, 0, -1>>) }
    ELSE { Q(<<0, 0, 0, 0, 0, 1>>), Q(<<-1, -1, -1, 0, 0, 1>>) }
TrajLens == {1, 4, 6}

Shapes == {s \in (1..MaxN) \X (1..MaxK) : s[1] * s[2] <= MaxCells}
Tensors(N, K, pool) == [1..N -> [1..K -> pool]]

\* Batches of trajectories of length L whose two tensors have the same shape.
DataInputs(L) ==
    UNION { { [acts |-> a, pred_acts |-> p] :
                a \in Tensors(s[1], s[2], ExpertPool(L)),
                p \in Tensors(s[1], s[2], StudentPool(L)) } :
            s \in Shapes }

\* All-zero batches of every pair of shapes: the two tensors may differ in
\* batch size, set size or vector length, and the length may differ from the
\* configured one.
Fill(N, K, L) == [n \in 1..N |-> [i \in 1..K |-> [k \in 1..L |-> Zero]]]
FillInputs ==
    { [acts |-> Fill(x[1][1], x[1][2], x[2]), pred_acts |-> Fill(x[3][1], x[3][2], x[4])] :
        x \in Shapes \X TrajLens \X Shapes \X TrajLens }

\* The batches of the repeated-call runs: one item of one or two trajectories
\* of length 4, the predictions in either order.
ProbeInputs ==
    { [acts |-> a, pred_acts |-> <<<<Q(<<0, 0, 0, 1>>)>>>>] :
        a \in Tensors(1, 1, ExpertPool(4)) }
    \cup
    { [acts |-> a, pred_acts |-> p] :
        a \in Tensors(1, 2, ExpertPool(4)),
        p \in { <<<<Q(<<0, 0, 0, 1>>), Q(<<1, 1, 1, 1>>)>>>>,
                <<<<Q(<<1, 1, 1, 1>>), Q(<<0, 0, 0, 1>>)>>>> } }

\* The log-probabilities a policy gives the expert's actions (the log of a
\* density may be positive).
LogProbs == { I(-3), I(-2), I(-1), Rat(-1, 2), Zero, One }
\* What an ActorCriticPolicy hands back for a batch of N samples: one
\* log-probability and one entropy per sample, and the squared norm of each
\* of its parameter tensors.
Evaluations(N) ==
    { [log_prob |-> lp, entropy |-> en, l2_norms |-> l2] :
        lp \in [1..N -> LogProbs],
        en \in [1..N -> {One, Rat(1, 2)}],
        l2 \in { <<I(2)>>, <<I(2), Rat(1, 3)>> } }

\* Existence indicators off the two exact values: th.round (line 421) takes
\* them to -2, -1, -1, -0, 0, 0 and 1.
RoundingIndicators ==
    { Rat(-3, 2), I(-1), Rat(-3, 5), Rat(-1, 2), Zero, Rat(2, 5), One }
WithIndicator(v, e) == [v EXCEPT ![Len(v)] = e]
\* The batches of the runs that look at the rounding: one item of two
\* trajectories of length 4, each expert with any of the indicators.
RoundingInputs ==
    { [acts |-> <<<<WithIndicator(Q(<<0, 0, 0, 1>>), e1),
                    WithIndicator(Q(<<1, 1, 1, 1>>), e2)>>>>,
       pred_acts |-> p] :
        e1 \in RoundingIndicators, e2 \in RoundingIndicators,
        p \in { <<<<Q(<<0, 0, 0, 1>>), Q(<<1, 1, 1, 1>>)>>>>,
                <<<<Q(<<2, 1, 0, -1>>), Q(<<0, 0, 0, 1>>)>>>> } }

(***************************************************************************)
(* State.                                                                  *)
(***************************************************************************)
VARIABLES
    traj_size_pos_ctrl_pts, traj_size_yaw_ctrl_pts, weight_prob, \* self.*
    policy,                     \* the class of self.policy: "ActorCriticPolicy"
                                \* or "BasePolicy" (any other policy)
    ent_weight, l2_weight,      \* self.*
    acts, pred_acts,            \* the arguments of the call in progress
    evaluation,                 \* what policy.evaluate_actions returned and the
                                \* squared norms of the policy's parameters
    pc,                         \* "idle", "assign", "aggregate", "returned", "raised"
    distance_matrix, distance_pos_matrix, distance_yaw_matrix, distance_time_matrix,
    alpha_matrix, index_batch, col_assigned, col_not_assigned,
    pos_yaw_time_loss, prob_loss, loss, stats_dict,
    raised,                     \* the exception the call ended with, "" for none
    caller,                     \* what the caller does after a call ends: "once"
                                \* (nothing), "again" (calls on any probe batch),
                                \* "permuted" (calls once more, on the first batch
                                \* with the predictions of one item permuted),
                                \* "rounding" (one call on a batch whose
                                \* indicators need rounding), "train" (builds
                                \* and runs the iterator)
    call_in, first, repeated,   \* history: the arguments and configuration on entry
                                \* of this call, the first finished call, and
                                \* whether this call came after a finished one
    \* EpochOrBatchIteratorWithProgress (lines 72-180): its fields,
    use_epochs, n_epochs, n_batches, on_epoch_end, on_batch_end, data_loader,
    \* the locals of __iter__,
    samples_so_far, epoch_num, batch_num, got_data_on_epoch, stats,
    loader_pos,                 \* batches the for loop has taken in this pass
    it_pc,                      \* "new", "ready", "while", "for", "yielded",
                                \* "done", "raised"
    it_raised,                  \* the exception the iterator ended with
    events                      \* history: the yields and the callback calls

config == <<traj_size_pos_ctrl_pts, traj_size_yaw_ctrl_pts, weight_prob>>
locals == <<distance_matrix, distance_pos_matrix, distance_yaw_matrix,
            distance_time_matrix, alpha_matrix, index_batch, col_assigned,
            col_not_assigned, pos_yaw_time_loss, prob_loss, loss, stats_dict>>
policy_vars == <<policy, ent_weight, l2_weight>>
engine_vars ==
    <<config, policy_vars, acts, pred_acts, evaluation, pc, locals, raised, caller,
      call_in, first, repeated>>
iter_fields == <<use_epochs, n_epochs, n_batches, on_epoch_end, on_batch_end, data_loader>>
iter_vars == <<iter_fields, samples_so_far, epoch_num, batch_num, got_data_on_epoch,
               stats, loader_pos, it_pc, it_raised, events>>
vars == <<engine_vars, iter_vars>>

\* A name that is not bound (yet) in the frame of the call.
Unbound == <<>>
NoStats == [loss |-> Unbound, pos_loss |-> Unbound, yaw_loss |-> Unbound,
            prob_loss |-> Unbound, time_loss |-> Unbound]

InitWith(c0) ==
    /\ \E c \in Configs :
        /\ traj_size_pos_ctrl_pts = c.P
        /\ traj_size_yaw_ctrl_pts = c.Y
        /\ weight_prob = c.w
        /\ ent_weight = c.ent
        /\ l2_weight = c.l2
    /\ policy \in PolicyClasses
    /\ acts = Unbound /\ pred_acts = Unbound /\ evaluation = Unbound
    /\ pc = "idle"
    /\ distance_matrix = Unbound /\ distance_pos_matrix = Unbound
    /\ distance_yaw_matrix = Unbound /\ distance_time_matrix = Unbound
    /\ alpha_matrix = Unbound /\ index_batch = 0
    /\ col_assigned = Unbound /\ col_not_assigned = Unbound
    /\ pos_yaw_time_loss = Unbound /\ prob_loss = Unbound
    /\ loss = Unbound /\ stats_dict = NoStats
    /\ raised = ""
    /\ caller = c0
    /\ call_in = Unbound /\ first = Unbound /\ repeated = FALSE
    \* no iterator is built yet
    /\ use_epochs = Unbound /\ n_epochs = Unbound /\ n_batches = Unbound
    /\ on_epoch_end = Unbound /\ on_batch_end = Unbound /\ data_loader = Unbound
    /\ samples_so_far = 0 /\ epoch_num = 0 /\ batch_num = 0
    /\ got_data_on_epoch = FALSE /\ stats = Unbound /\ loader_pos = 0
    /\ it_pc = "new" /\ it_raised = "" /\ events = <<>>

Init == InitWith("once")
InitRepeat == InitWith("again")
InitPermuted == InitWith("permuted")
InitTrain == InitWith("train")
InitRounding == InitWith("rounding")

(***************************************************************************)
(* Actions.                                                                *)
(***************************************************************************)
\* What a finished call hands back (or raises), with the assignment it used.
Outcome ==
    [raised |-> raised, alpha_matrix |-> alpha_matrix, loss |-> loss,
     stats_dict |-> stats_dict]

\* The history keeps the first finished call of a run of several calls.
Remember ==
    first' = IF caller # "once" /\ first = Unbound
             THEN <<[args |-> call_in', out |-> Outcome']>>
             ELSE first

\* The frame of a call that raised is gone.
Raise(e) ==
    /\ pc' = "raised"
    /\ raised' = e
    /\ distance_matrix' = Unbound /\ distance_pos_matrix' = Unbound
    /\ distance_yaw_matrix' = Unbound /\ distance_time_matrix' = Unbound
    /\ alpha_matrix' = Unbound /\ index_batch' = 0
    /\ col_assigned' = Unbound /\ col_not_assigned' = Unbound
    /\ pos_yaw_time_loss' = Unbound /\ prob_loss' = Unbound
    /\ loss' = Unbound /\ stats_dict' = NoStats

\* A variant of InitialAlpha that reuses the matrix of the previous call when
\* the shape is the same, as a cached buffer would (C9 tells the two apart).
StaleAlpha(N, K) ==
    IF alpha_matrix # Unbound /\ Len(alpha_matrix) = N /\ Len(alpha_matrix[1]) = K
    THEN alpha_matrix
    ELSE IF K > 1 THEN th_zeros(N, K) ELSE th_ones(N, K)

\* Lines 407-413: alpha_matrix before the loop over the batch.
InitialAlpha(N, K) == IF K > 1 THEN th_zeros(N, K) ELSE th_ones(N, K)

\* The batches a run of one call may pass to an engine configured with (P, Y):
\* the data batches of the configured length, and the all-zero batches.
AllInputs(P, Y) == DataInputs(P + Y + 2) \cup FillInputs

\* Lines 326-413: the call reads the shapes from acts, builds the four
\* distance matrices and the initial alpha_matrix (ones; zeros when K > 1).
EnterSetMatching(a, p) ==
    /\ pred_acts' = p
    /\ evaluation' = Unbound
    /\ LET P == traj_size_pos_ctrl_pts
           Y == traj_size_yaw_ctrl_pts
           N == BatchSize(a)
           K == NumTraj(a)
           e == CostLoopError(a, p, P, Y)
       IN  IF e # ""
           THEN Raise(e) /\ Remember
           ELSE /\ distance_matrix' = DistanceMatrix(a, p)
                /\ distance_pos_matrix' = DistancePosMatrix(a, p, P)
                /\ distance_yaw_matrix' = DistanceYawMatrix(a, p, P, Y)
                /\ distance_time_matrix' = DistanceTimeMatrix(a, p)
                /\ alpha_matrix' = InitialAlpha(N, K)
                /\ index_batch' = 1
                /\ col_assigned' = Unbound /\ col_not_assigned' = Unbound
                /\ pos_yaw_time_loss' = Unbound /\ prob_loss' = Unbound
                /\ loss' = Unbound /\ stats_dict' = NoStats
                /\ raised' = ""
                /\ pc' = IF K > 1 THEN "assign" ELSE "aggregate"
                /\ UNCHANGED first

\* Lines 302-324 and 512: with an ActorCriticPolicy the call evaluates the
\* policy on the batch and returns; no prediction, distance matrix or
\* assignment is ever built.
EnterActorCritic(ev) ==
    /\ evaluation' = ev
    /\ pred_acts' = Unbound
    /\ distance_matrix' = Unbound /\ distance_pos_matrix' = Unbound
    /\ distance_yaw_matrix' = Unbound /\ distance_time_matrix' = Unbound
    /\ alpha_matrix' = Unbound /\ index_batch' = 0
    /\ col_assigned' = Unbound /\ col_not_assigned' = Unbound
    /\ pos_yaw_time_loss' = Unbound /\ prob_loss' = Unbound
    /\ stats_dict' = ActorCriticStats(ev, ent_weight, l2_weight)
    /\ loss' = stats_dict'.loss
    /\ raised' = ""
    /\ pc' = "returned"
    /\ Remember

\* Lines 299-413: a call starts on the batch a; out is what the policy hands
\* back, from evaluate_actions (line 303) or from forward (line 327).
Enter(a, out) ==
    /\ acts' = a
    /\ call_in' = <<a, out, config>>
    /\ repeated' = (first # Unbound)
    /\ UNCHANGED <<config, policy_vars, caller, iter_vars>>
    /\ IF policy = "ActorCriticPolicy"
       THEN EnterActorCritic(out)
       ELSE EnterSetMatching(a, out)

\* Lines 414-432: one iteration of the loop over the batch.
SolveItem ==
    /\ pc = "assign"
    /\ alpha_matrix' =
         [alpha_matrix EXCEPT ![index_batch] =
             AssignItem(@, distance_pos_matrix[index_batch], acts, index_batch)]
    /\ index_batch' = index_batch + 1
    /\ pc' = IF index_batch = BatchSize(acts) THEN "aggregate" ELSE "assign"
    /\ UNCHANGED <<config, policy_vars, evaluation, acts, pred_acts,
                   distance_matrix, distance_pos_matrix,
                   distance_yaw_matrix, distance_time_matrix, col_assigned,
                   col_not_assigned, pos_yaw_time_loss, prob_loss, loss, stats_dict,
                   raised, caller, call_in, first, repeated, iter_vars>>

\* Lines 486-510: the losses, from the assigned and the unassigned columns.
Losses(N, K, ca, cna) ==
    /\ col_assigned' = ca
    /\ col_not_assigned' = cna
    /\ pos_yaw_time_loss' = MatchedCost(N, K, alpha_matrix, distance_matrix)
    /\ prob_loss' = ProbLoss(N, K, ca, cna, LastOf(pred_acts))
    /\ loss' = TotalLoss(pos_yaw_time_loss', weight_prob, prob_loss')
    /\ stats_dict' =
         [loss |-> loss',
          pos_loss |-> MatchedCost(N, K, alpha_matrix, distance_pos_matrix),
          yaw_loss |-> MatchedCost(N, K, alpha_matrix, distance_yaw_matrix),
          prob_loss |-> prob_loss',
          time_loss |-> MatchedCost(N, K, alpha_matrix, distance_time_matrix)]

\* Lines 436-512: the assigned columns (when K > 1), the shape asserts, the
\* losses and the return.
Aggregate ==
    /\ pc = "aggregate"
    /\ UNCHANGED <<config, policy_vars, evaluation, acts, pred_acts, caller,
                   call_in, repeated, iter_vars>>
    /\ IF AggregateError(acts, pred_acts) # ""
       THEN Raise(AggregateError(acts, pred_acts))
       ELSE /\ Losses(BatchSize(acts), NumTraj(acts), ColAssigned(alpha_matrix),
                      ColNotAssigned(ColAssigned(alpha_matrix)))
            /\ raised' = ""
            /\ pc' = "returned"
            /\ UNCHANGED <<distance_matrix, distance_pos_matrix, distance_yaw_matrix,
                           distance_time_matrix, alpha_matrix, index_batch>>
    /\ Remember

\* The permutations of 1..K, and batch p with the trajectories of item n
\* reordered by pi.
Perms(K) == {pi \in [1..K -> 1..K] : \A x, y \in 1..K : pi[x] = pi[y] => x = y}
PermuteItem(p, n, pi) ==
    [p EXCEPT ![n] = Tup([j \in 1..Len(p[n]) |-> p[n][pi[j]]])]
PermutedInputs(a, p) ==
    { [acts |-> a, pred_acts |-> PermuteItem(p, n, pi)] :
        n \in 1..Len(p), pi \in Perms(Len(p[1])) }

\* The batches the caller may pass next to a policy that is not ActorCritic,
\* with the predictions of the policy.
NextInputs ==
    IF caller = "again" THEN ProbeInputs
    ELSE IF caller = "rounding" THEN RoundingInputs
    ELSE IF caller = "permuted" /\ first # Unbound
         THEN PermutedInputs(first[1].args[1], first[1].args[2])
    ELSE IF caller = "permuted"
         THEN DataInputs(traj_size_pos_ctrl_pts + traj_size_yaw_ctrl_pts + 2)
    ELSE AllInputs(traj_size_pos_ctrl_pts, traj_size_yaw_ctrl_pts)

\* The caller (BC.train, line 570) passes a batch to _calculate_loss.
\* The batches passed to an ActorCriticPolicy, of up to MaxN samples of one
\* trajectory, with what the policy hands back for them (the branch reads
\* nothing of acts itself).
ActorCriticBatch(N) == [n \in 1..N |-> <<Q(<<0, 0, 0, 1>>)>>]
ActorCriticInputs ==
    UNION { { [acts |-> ActorCriticBatch(N), out |-> ev] : ev \in Evaluations(N) } :
            N \in 1..MaxN }
\* Those of the repeated-call runs: one sample, on any expert, by a policy
\* of one parameter tensor.
ActorCriticProbes ==
    { [acts |-> a, out |-> ev] :
        a \in Tensors(1, 1, ExpertPool(4)),
        ev \in { x \in Evaluations(1) : x.entropy = <<One>> /\ Len(x.l2_norms) = 1 } }
\* The calls the caller may make next: the batch, and what the policy hands
\* back for it.
NextCalls ==
    IF policy = "ActorCriticPolicy"
    THEN IF caller = "again" THEN ActorCriticProbes ELSE ActorCriticInputs
    ELSE { [acts |-> b.acts, out |-> b.pred_acts] : b \in NextInputs }
Call ==
    /\ \/ pc = "idle"
       \/ caller = "again" /\ pc \in {"returned", "raised"}
       \/ caller = "permuted" /\ pc \in {"returned", "raised"}
                              /\ policy # "ActorCriticPolicy"
                              /\ call_in = first[1].args
    /\ \E c \in NextCalls : Enter(c.acts, c.out)

Next ==
    \/ Call
    \/ SolveItem
    \/ Aggregate

\* One call on any batch of the bounded family.
Spec == Init /\ [][Next]_vars
\* Any sequence of calls on the probe batches.
SpecRepeat == InitRepeat /\ [][Next]_vars
\* One call on a data batch, then one on the same batch with the predictions
\* of one item permuted.
SpecPermuted == InitPermuted /\ [][Next]_vars
\* One call on a batch whose existence indicators need rounding.
SpecRounding == InitRounding /\ [][Next]_vars

(***************************************************************************)
(* EpochOrBatchIteratorWithProgress (lines 72-180), which BC.train builds  *)
(* (lines 558-565) and consumes in its for loop (line 569).  The progress  *)
(* display is left out.                                                    *)
(***************************************************************************)
MaxCount == 3
MaxB == 3
MaxBatchLen == 2

\* An optional argument is None or holds one value.
None == <<>>
Some(x) == <<x>>
\* n_epochs and n_batches: None or a count.
CountArgs == {None} \cup {Some(c) : c \in 0..MaxCount}
\* on_epoch_end and on_batch_end: None or a callable.
CallbackArgs == {None, Some("callable")}
\* A data loader yields B batches of `size` samples on every pass.
Loaders == [B : 0..MaxB, size : 0..MaxBatchLen]

\* Lines 103-117: __init__.
Construct(ne, nb, oe, ob, dl) ==
    /\ caller = "train" /\ it_pc = "new"
    /\ IF (ne # None /\ nb = None) \/ (ne = None /\ nb # None)
       THEN /\ use_epochs' = (ne # None)
            /\ data_loader' = dl
            /\ n_epochs' = ne /\ n_batches' = nb
            /\ on_epoch_end' = oe /\ on_batch_end' = ob
            /\ it_pc' = "ready"
            /\ UNCHANGED it_raised
       ELSE /\ it_pc' = "raised"
            /\ it_raised' = "ValueError"
            /\ UNCHANGED iter_fields
    /\ UNCHANGED <<engine_vars, samples_so_far, epoch_num, batch_num,
                   got_data_on_epoch, stats, loader_pos, events>>

\* Lines 123-126: the first next() enters the body of __iter__.
StartIter ==
    /\ it_pc = "ready"
    /\ samples_so_far' = 0 /\ epoch_num' = 0 /\ batch_num' = 0
    /\ it_pc' = "while"
    /\ UNCHANGED <<engine_vars, iter_fields, got_data_on_epoch, stats, loader_pos,
                   it_raised, events>>

\* Lines 144-147: a pass of the while loop starts a pass through the loader.
BeginPass ==
    /\ it_pc = "while"
    /\ got_data_on_epoch' = FALSE
    /\ loader_pos' = 0
    /\ it_pc' = "for"
    /\ UNCHANGED <<engine_vars, iter_fields, samples_so_far, epoch_num, batch_num,
                   stats, it_raised, events>>

\* Lines 147-159: the loader gives a batch, which is yielded with its stats.
TakeBatch ==
    /\ it_pc = "for" /\ loader_pos < data_loader.B
    /\ got_data_on_epoch' = TRUE
    /\ batch_num' = batch_num + 1
    /\ loader_pos' = loader_pos + 1
    /\ IF data_loader.size > 0
       THEN /\ samples_so_far' = samples_so_far + data_loader.size
            /\ stats' = [epoch_num |-> epoch_num, batch_num |-> batch_num',
                         samples_so_far |-> samples_so_far']
            /\ events' = Append(events, "yield")
            /\ it_pc' = "yielded"
            /\ UNCHANGED it_raised
       ELSE /\ it_pc' = "raised"
            /\ it_raised' = "AssertionError"
            /\ UNCHANGED <<samples_so_far, stats, events>>
    /\ UNCHANGED <<engine_vars, iter_fields, epoch_num>>

\* A variant of BatchEnded that never calls on_batch_end (C12 tells the two apart).
BatchEndedSilently(ev) == ev

\* Lines 161-162.
BatchEnded(ev) == IF on_batch_end # None THEN Append(ev, "on_batch_end") ELSE ev
\* Lines 175-176.
EpochEnded(ev) == IF on_epoch_end # None THEN Append(ev, "on_epoch_end") ELSE ev

\* Lines 160-166: the consumer asks for the next batch; the generator goes on
\* after its yield.
Resume ==
    /\ it_pc = "yielded"
    /\ events' = BatchEnded(events)
    /\ it_pc' = IF ~use_epochs /\ batch_num >= n_batches[1] THEN "done" ELSE "for"
    /\ UNCHANGED <<engine_vars, iter_fields, samples_so_far, epoch_num, batch_num,
                   got_data_on_epoch, stats, loader_pos, it_raised>>

\* Lines 167-180: the loader is exhausted.
EndPass ==
    /\ it_pc = "for" /\ loader_pos = data_loader.B
    /\ IF ~got_data_on_epoch
       THEN /\ it_pc' = "raised"
            /\ it_raised' = "AssertionError"
            /\ UNCHANGED <<epoch_num, events>>
       ELSE /\ epoch_num' = epoch_num + 1
            /\ events' = EpochEnded(events)
            /\ it_pc' = IF use_epochs /\ epoch_num' >= n_epochs[1] THEN "done" ELSE "while"
            /\ UNCHANGED it_raised
    /\ UNCHANGED <<engine_vars, iter_fields, samples_so_far, batch_num,
                   got_data_on_epoch, stats, loader_pos>>

\* Lines 558-565: BC.train builds the iterator.
Build ==
    \E ne, nb \in CountArgs : \E oe, ob \in CallbackArgs : \E dl \in Loaders :
        Construct(ne, nb, oe, ob, dl)

NextIter ==
    \/ Build
    \/ StartIter
    \/ BeginPass
    \/ TakeBatch
    \/ Resume
    \/ EndPass

\* One iterator, built and consumed to its end.
SpecIter == InitTrain /\ [][NextIter]_vars

(***************************************************************************)
(* Properties.                                                             *)
(***************************************************************************)
CallN == BatchSize(acts)
CallK == NumTraj(acts)
CallL == NumElems(acts)
\* The call computes the set-matching loss (lines 326-510).
SetMatching == policy # "ActorCriticPolicy"
Returned == SetMatching /\ pc = "returned"
Finished == SetMatching /\ pc \in {"returned", "raised"}
\* alpha_matrix is complete once the loop over the batch has ended.
AlphaBuilt == SetMatching /\ pc \in {"aggregate", "returned"}
SameShape ==
    /\ BatchSize(pred_acts) = CallN
    /\ NumTraj(pred_acts) = CallK
    /\ NumElems(pred_acts) = CallL
ConfiguredLength == CallL = traj_size_pos_ctrl_pts + traj_size_yaw_ctrl_pts + 2
\* The existence indicator of expert i of item n.
Indicator(n, i) == acts[n][i][Len(acts[n][i])]
ValidRows(n) == {i \in 1..CallK : Indicator(n, i) = One}
InvalidRows(n) == {i \in 1..CallK : Indicator(n, i) = I(-1)}
OnesInRow(n, i) == {j \in 1..CallK : alpha_matrix[n][i][j] = One}
OnesInCol(n, j) == {i \in 1..CallK : alpha_matrix[n][i][j] = One}

AlphaStructure(n) ==
    /\ \A i, j \in 1..CallK : alpha_matrix[n][i][j] \in {Zero, One}
    /\ \A i \in ValidRows(n) : Cardinality(OnesInRow(n, i)) = 1
    /\ \A i \in InvalidRows(n) : OnesInRow(n, i) = {}
    /\ \A j \in 1..CallK : Cardinality(OnesInCol(n, j)) <= 1

\* C1 (as amended): when K > 1, every entry of alpha_matrix is 0 or 1, the row
\* of every valid expert holds exactly one 1, the row of every invalid expert
\* is all zero and every column holds at most one 1; when K = 1 the matrix of
\* every item is [[1]], whatever the expert's existence indicator is.
C1_AlphaMatrix ==
    AlphaBuilt =>
        \A n \in 1..CallN :
            IF CallK > 1 THEN AlphaStructure(n)
            ELSE alpha_matrix[n] = <<<<One>>>>

\* C1 as stated: the structure holds for every K >= 1.
C1_AsStated == AlphaBuilt => \A n \in 1..CallN : AlphaStructure(n)

\* A returned call on two items of which one mixes a valid and an invalid
\* expert, so that one of its columns stays unmatched.
C1_Witness ==
    /\ Returned /\ CallN = 2 /\ CallK = 2
    /\ \E n \in 1..CallN :
          /\ ValidRows(n) # {} /\ InvalidRows(n) # {}
          /\ \E j \in 1..CallK : OnesInCol(n, j) = {}
          /\ \E j \in 1..CallK : OnesInCol(n, j) # {}

Injections(S, K) == {f \in [S -> 1..K] : \A x, y \in S : f[x] = f[y] => x = y}
RECURSIVE CostOf(_, _, _)
\* The position cost of mapping every row i of S to column f[i] in item n.
CostOf(n, f, S) ==
    IF S = {} THEN Zero
    ELSE LET i == CHOOSE x \in S : TRUE
         IN  DAdd(distance_pos_matrix[n][i][f[i]], CostOf(n, f, S \ {i}))
\* The position cost of the pairs alpha_matrix matches in item n.
RECURSIVE PairsCost(_, _)
PairsCost(n, S) ==
    IF S = {} THEN Zero
    ELSE LET x == CHOOSE y \in S : TRUE
         IN  DAdd(distance_pos_matrix[n][x[1]][x[2]], PairsCost(n, S \ {x}))
AssignedCost(n) ==
    PairsCost(n, {x \in (1..CallK) \X (1..CallK) : alpha_matrix[n][x[1]][x[2]] = One})

\* The instance of the specification: two valid experts, position costs
\* [[1, 4], [3, 2]].
KnownInstance ==
    /\ CallN = 1 /\ CallK = 2 /\ ValidRows(1) = {1, 2}
    /\ distance_pos_matrix = <<<< <<I(1), I(4)>>, <<I(3), I(2)>> >>>>

\* C2: when K > 1, no one-to-one mapping of the valid experts of an item to
\* predicted slots has a smaller sum of position costs than the pairs
\* alpha_matrix matches; on position costs [[1, 4], [3, 2]] with two valid
\* experts the pairs are (0, 0) and (1, 1) and pos_loss is 3/2.
C2_Optimal ==
    (AlphaBuilt /\ CallK > 1) =>
        /\ \A n \in 1..CallN :
              \A f \in Injections(ValidRows(n), CallK) :
                  ~RLess(CostOf(n, f, ValidRows(n)), AssignedCost(n))
        /\ KnownInstance =>
              /\ alpha_matrix = <<<< <<One, Zero>>, <<Zero, One>> >>>>
              /\ Returned => stats_dict.pos_loss = Rat(3, 2)

\* The instance of the specification has been solved and its losses returned.
C2_Witness == Returned /\ KnownInstance

\* The mean squared position error of expert 0 and prediction 0, over the batch.
DirectPosLoss ==
    RDivInt(SumSeq([n \in 1..CallN |->
                RDivInt(SumSeq([k \in 1..traj_size_pos_ctrl_pts |->
                            RSq(RSub(acts[n][1][k], pred_acts[n][1][k]))]),
                        traj_size_pos_ctrl_pts)]),
            CallN)

\* C3: when K = 1 the call completes and returns; the assignment is expert 0
\* to prediction 0 for every item and pos_loss is the mean squared position
\* error of that pair.
C3_SingleTrajectory ==
    (Finished /\ CallK = 1 /\ SameShape /\ ConfiguredLength) =>
        /\ Returned
        /\ alpha_matrix = th_ones(CallN, 1)
        /\ stats_dict.pos_loss = DirectPosLoss

\* The finished first call of the run.
FirstOut == first[1].out
FirstPred == first[1].args[2]
\* A call of a run of two has returned (the first call, or the one on the
\* permuted batch).
ReturnedAfterFirst == caller = "permuted" /\ Returned /\ first # Unbound
\* The matched cost over all components, which the call returns inside loss.
FullOf(l, st) == RSub(l, RMul(weight_prob, st.prob_loss))
\* alpha with the columns of item n reordered by pi.
PermuteAlpha(alpha, n, pi) ==
    [alpha EXCEPT ![n] =
        [i \in 1..Len(alpha[n]) |-> [j \in 1..Len(alpha[n]) |-> alpha[n][i][pi[j]]]]]
\* The one-to-one mappings of the valid experts of item n of least position cost.
Optima(n) ==
    {f \in Injections(ValidRows(n), CallK) :
        \A g \in Injections(ValidRows(n), CallK) :
            ~RLess(CostOf(n, g, ValidRows(n)), CostOf(n, f, ValidRows(n)))}
UniqueOptimum(n) == Cardinality(Optima(n)) = 1

\* What the permutation does leave alone: pos_loss in every case and, when
\* the assignment of least position cost of the permuted item is unique,
\* loss, the full matched cost, yaw_loss and prob_loss, the columns of the
\* item's assignment matrix moving with the predictions.
C4_Permutation ==
    ReturnedAfterFirst =>
        \A n \in 1..CallN : \A pi \in Perms(CallK) :
            pred_acts = PermuteItem(FirstPred, n, pi) =>
                /\ stats_dict.pos_loss = FirstOut.stats_dict.pos_loss
                /\ UniqueOptimum(n) =>
                      /\ alpha_matrix = PermuteAlpha(FirstOut.alpha_matrix, n, pi)
                      /\ loss = FirstOut.loss
                      /\ FullOf(loss, stats_dict) = FullOf(FirstOut.loss, FirstOut.stats_dict)
                      /\ stats_dict.yaw_loss = FirstOut.stats_dict.yaw_loss
                      /\ stats_dict.prob_loss = FirstOut.stats_dict.prob_loss

\* The five values of the first call are those of the call in progress.
SameCostsAsFirst ==
    /\ loss = FirstOut.loss
    /\ FullOf(loss, stats_dict) = FullOf(FirstOut.loss, FirstOut.stats_dict)
    /\ stats_dict.pos_loss = FirstOut.stats_dict.pos_loss
    /\ stats_dict.yaw_loss = FirstOut.stats_dict.yaw_loss
    /\ stats_dict.time_loss = FirstOut.stats_dict.time_loss

\* C4, on the batches that have no tie: when the assignment of least
\* position cost of every item is unique, permuting the predicted
\* trajectories of an item leaves loss, the full matched cost, pos_loss,
\* yaw_loss and time_loss unchanged.
C4_PermutationInvariant ==
    (ReturnedAfterFirst /\ \A n \in 1..CallN : UniqueOptimum(n)) => SameCostsAsFirst

\* C4 in full: the same, ties of position cost included.
C4_AsStated == ReturnedAfterFirst => SameCostsAsFirst

\* The second call of a run has returned: each of the three predictions of
\* its item has moved, two experts are valid and their best assignment is unique.
C4_Witness ==
    /\ ReturnedAfterFirst /\ repeated
    /\ CallK = 3
    /\ \A j \in 1..CallK : pred_acts[1][j] # FirstPred[1][j]
    /\ \E n \in 1..CallN :
          /\ pred_acts[n] # FirstPred[n]
          /\ Cardinality(ValidRows(n)) = 2
          /\ UniqueOptimum(n)
          /\ alpha_matrix[n] # FirstOut.alpha_matrix[n]

\* The sum of dist over the matched pairs of the whole batch, over N * K.
MatchedPairsCost(dist) ==
    RMul(Rat(1, CallN * CallK),
         SumSeq(Flatten(Flatten(Tup([n \in 1..CallN |-> Tup([i \in 1..CallK |->
             Tup([j \in 1..CallK |->
                IF alpha_matrix[n][i][j] = One THEN dist[n][i][j] ELSE Zero])])])))))

\* C5: the returned loss is full_matched_cost + weight_prob * prob_loss, and
\* each matched cost (full, position, yaw, time) is 1 / (N * K) times the sum
\* of the cost over the matched pairs of the batch: unmatched pairs add
\* nothing.  The sums and products are float32 ones, the sum taken in index
\* order.
C5_Loss ==
    Returned =>
        /\ loss = RAdd(pos_yaw_time_loss, RMul(weight_prob, prob_loss))
        /\ stats_dict.loss = loss
        /\ stats_dict.prob_loss = prob_loss
        /\ pos_yaw_time_loss = MatchedPairsCost(distance_matrix)
        /\ stats_dict.pos_loss = MatchedPairsCost(distance_pos_matrix)
        /\ stats_dict.yaw_loss = MatchedPairsCost(distance_yaw_matrix)
        /\ stats_dict.time_loss = MatchedPairsCost(distance_time_matrix)

\* A call has returned with a matched cost and a score loss that are not
\* zero, and with an unmatched pair whose cost is not zero.
C5_Witness ==
    /\ Returned
    /\ pos_yaw_time_loss # Zero /\ prob_loss # Zero
    /\ \E n \in 1..CallN : \E i, j \in 1..CallK :
          alpha_matrix[n][i][j] = Zero /\ distance_matrix[n][i][j] # Zero

\* The predicted score of slot j of item n.
Score(n, j) == pred_acts[n][j][Len(pred_acts[n][j])]
SlotAssigned(n, j) == \E i \in 1..CallK : alpha_matrix[n][i][j] = One
\* The sum over the slots of the batch of term(n, j).
SumSlots(term(_, _)) ==
    SumSeq(Flatten(Tup([n \in 1..CallN |-> Tup([j \in 1..CallK |-> term(n, j)])])))
AssignedTerm(n, j) ==
    IF SlotAssigned(n, j) THEN RSq(RSub(Score(n, j), One)) ELSE Zero
UnassignedTerm(n, j) ==
    IF SlotAssigned(n, j) THEN Zero ELSE RSq(RAdd(Score(n, j), One))

\* C6: assigned[j] is 1 exactly when some expert row is matched to column j
\* and 0 otherwise, and prob_loss is (1 / (N * K)) times the sum of
\* (score - 1)^2 over the assigned slots plus the sum, not normalized, of
\* (score + 1)^2 over the others.
C6_ProbLoss ==
    Returned =>
        /\ \A n \in 1..CallN : \A j \in 1..CallK :
              /\ col_assigned[n][j] = IF SlotAssigned(n, j) THEN One ELSE Zero
              /\ col_not_assigned[n][j] = RSub(One, col_assigned[n][j])
        /\ prob_loss = RAdd(RMul(Rat(1, CallN * CallK), SumSlots(AssignedTerm)),
                            SumSlots(UnassignedTerm))

\* A call has returned where both sums count: an assigned slot whose score is
\* not 1 and an unassigned slot whose score is not -1.
C6_Witness ==
    /\ Returned /\ CallN * CallK > 1
    /\ \E n \in 1..CallN : \E j \in 1..CallK :
          SlotAssigned(n, j) /\ Score(n, j) # One
    /\ \E n \in 1..CallN : \E j \in 1..CallK :
          ~SlotAssigned(n, j) /\ Score(n, j) # I(-1)

AllInvalid(n) == InvalidRows(n) = 1..CallK
ZeroMatrix(m) == \A i, j \in 1..Len(m) : m[i][j] = Zero

\* C7: when all K experts of an item are invalid, the call raises no error,
\* the assignment matrix of the item is all zero, and every slot of the item
\* is counted as unassigned.
C7_AllInvalid ==
    (pc # "idle" /\ SameShape /\ ConfiguredLength) =>
        \A n \in 1..CallN :
            AllInvalid(n) =>
                /\ pc # "raised"
                /\ AlphaBuilt => ZeroMatrix(alpha_matrix[n])
                /\ Returned =>
                      \A j \in 1..CallK : col_not_assigned[n][j] = One

\* C8: the call fails with a shape error whenever the trajectory length
\* differs from P + Y + 2, or the two tensors differ in K or in N.
C8_ShapeErrors ==
    (Finished /\ \/ CallL # traj_size_pos_ctrl_pts + traj_size_yaw_ctrl_pts + 2
                 \/ NumElems(pred_acts) # traj_size_pos_ctrl_pts + traj_size_yaw_ctrl_pts + 2
                 \/ NumTraj(pred_acts) # CallK
                 \/ BatchSize(pred_acts) # CallN)
        => pc = "raised"

\* C9: a call with the same arguments and configuration as the first call of
\* the run ends as the first call did (the same loss, statistics and
\* assignment, or the same exception), and every call leaves its arguments
\* and the configuration as they were on entry.
C9_Deterministic ==
    (Finished /\ first # Unbound) =>
        /\ acts = call_in[1] /\ pred_acts = call_in[2] /\ config = call_in[3]
        /\ call_in = first[1].args => Outcome = FirstOut

\* A later call of a run has returned on the arguments of the first call,
\* which matched two experts.
C9_Witness ==
    /\ caller = "again" /\ repeated /\ Returned
    /\ call_in = first[1].args
    /\ CallK = 2 /\ ValidRows(1) = {1, 2}

\* Every matched prediction equals its expert in position, yaw and time and
\* has score 1, and every unmatched slot has score -1.
ZeroErrorCase ==
    /\ \A n \in 1..CallN : \A i, j \in 1..CallK :
          alpha_matrix[n][i][j] = One =>
              /\ AllButLast(acts, i)[n] = AllButLast(pred_acts, j)[n]
              /\ Score(n, j) = One
    /\ \A n \in 1..CallN : \A j \in 1..CallK :
          ~SlotAssigned(n, j) => Score(n, j) = I(-1)

\* C10: in the zero-error case pos_loss, yaw_loss, time_loss, prob_loss and
\* loss are all 0.
C10_ZeroError ==
    (Returned /\ ConfiguredLength /\ ZeroErrorCase) =>
        /\ loss = Zero
        /\ stats_dict.pos_loss = Zero /\ stats_dict.yaw_loss = Zero
        /\ stats_dict.time_loss = Zero /\ stats_dict.prob_loss = Zero

\* The iterator has been built, on a loader that yields at least one batch of
\* at least one sample on every pass.
Iterating == it_pc \in {"ready", "while", "for", "yielded", "done"}
LoaderYields == data_loader.B >= 1 /\ data_loader.size >= 1
\* How often event e has happened, and the batches yielded so far.
CountOf(e) == Cardinality({k \in 1..Len(events) : events[k] = e})
Yields == CountOf("yield")
\* The number of batches the arguments ask for.
BatchesAsked ==
    IF use_epochs THEN n_epochs[1] * data_loader.B ELSE n_batches[1]

\* C11: on a loader that yields B >= 1 batches on every pass, an iteration
\* ends without an exception after exactly n_batches batches when n_batches
\* is given and after exactly n_epochs * B batches when n_epochs is given,
\* for every count >= 0; so it never yields more than that.
C11_BatchCount ==
    (Iterating /\ LoaderYields) =>
        /\ Yields <= BatchesAsked
        /\ it_pc = "done" => Yields = BatchesAsked

EpochEnds == CountOf("on_epoch_end")
\* The last on_epoch_end before position k of events, 0 when there is none.
LastEpochEndBefore(k) ==
    LET E == {e \in 1..(k - 1) : events[e] = "on_epoch_end"}
    IN  IF E = {} THEN 0 ELSE CHOOSE e \in E : \A f \in E : f <= e
\* The batches yielded between positions j and k of events.
YieldsBetween(j, k) == Cardinality({y \in (j + 1)..(k - 1) : events[y] = "yield"})

\* on_batch_end follows every yield at once, and nothing else.
BatchEndRule ==
    /\ \A k \in 1..Len(events) :
          events[k] = "yield" =>
              IF k < Len(events) THEN events[k + 1] = "on_batch_end"
              ELSE it_pc = "yielded"
    /\ \A k \in 1..Len(events) :
          events[k] = "on_batch_end" => k > 1 /\ events[k - 1] = "yield"
    /\ it_pc = "yielded" => events[Len(events)] = "yield"
    /\ it_pc = "done" => CountOf("on_batch_end") = Yields

\* on_epoch_end closes every pass of B batches that exhausted the loader.
EpochEndRule ==
    /\ \A k \in 1..Len(events) :
          events[k] = "on_epoch_end" =>
              /\ YieldsBetween(LastEpochEndBefore(k), k) = data_loader.B
              /\ on_batch_end # None => events[k - 1] = "on_batch_end"
    /\ EpochEnds * data_loader.B <= Yields
    /\ Yields <= (EpochEnds + 1) * data_loader.B
    /\ it_pc = "done" =>
          IF use_epochs THEN EpochEnds * data_loader.B = Yields
          ELSE EpochEnds = (Yields - 1) \div data_loader.B

\* C12 (as amended): on_batch_end is called exactly once for every yielded
\* batch, after the consumer has finished with the batch and before the next
\* batch is yielded or the iteration ends; on_epoch_end is called exactly once
\* each time a pass ends by exhausting the data loader, after the on_batch_end
\* of the last batch of the pass.  In n_batches mode the iteration ends right
\* after the on_batch_end of batch n_batches, so the pass that this batch
\* completes gets no on_epoch_end.
C12_Callbacks ==
    (Iterating /\ LoaderYields) =>
        /\ on_batch_end # None => BatchEndRule
        /\ on_epoch_end # None => EpochEndRule

\* The count given, n_epochs or n_batches.
CountGiven == IF use_epochs THEN n_epochs[1] ELSE n_batches[1]

\* C12 as stated: at the end of the iteration on_epoch_end has been called
\* once for every complete pass (every B batches yielded); looked at for the
\* counts >= 1 only.
C12_AsStated ==
    (it_pc = "done" /\ LoaderYields /\ on_epoch_end # None /\ CountGiven >= 1) =>
        EpochEnds = Yields \div data_loader.B

\* An iteration in n_batches mode with both callbacks has ended after a whole
\* pass and a part of the next one.
C12_Witness ==
    /\ it_pc = "done" /\ ~use_epochs /\ LoaderYields
    /\ on_batch_end # None /\ on_epoch_end # None
    /\ EpochEnds = 1
    /\ Yields = data_loader.B + 1 /\ data_loader.B > 1

\* The cost matrices have been built for a call whose two tensors have the
\* same shape and the configured vector length.
CostsBuilt ==
    /\ SetMatching /\ pc \in {"assign", "aggregate", "returned"}
    /\ SameShape /\ ConfiguredLength
\* The mean of the squared differences between expert i and prediction j of
\* item n over the components lo..hi (1-based, both included).
RECURSIVE SquaredError(_, _, _, _)
SquaredError(x, y, lo, hi) ==
    IF hi < lo THEN Zero
    ELSE RAdd(RSq(RSub(x[hi], y[hi])), SquaredError(x, y, lo, hi - 1))
MeanSquaredError(n, i, j, lo, hi) ==
    RDivInt(SquaredError(acts[n][i], pred_acts[n][j], lo, hi), hi - lo + 1)

\* C13: every cost entry is the sum of squared differences over its
\* sub-vector divided by the sub-vector's length: full over the P+Y+1
\* components other than the existence component, pos over the P position
\* components, yaw over the Y yaw components.
C13_SubVectorMeans ==
    CostsBuilt =>
        LET P == traj_size_pos_ctrl_pts
            Y == traj_size_yaw_ctrl_pts
        IN  \A n \in 1..CallN : \A i, j \in 1..CallK :
                /\ distance_matrix[n][i][j] = MeanSquaredError(n, i, j, 1, P + Y + 1)
                /\ distance_pos_matrix[n][i][j] = MeanSquaredError(n, i, j, 1, P)
                /\ distance_yaw_matrix[n][i][j] = MeanSquaredError(n, i, j, P + 1, P + Y)

\* The batch made of item n alone.
ItemAlone(t, n) == <<t[n]>>
\* The time scalar of a trajectory.
TimeScalar(v) == v[Len(v) - 1]

\* C14: batch items are independent in the cost matrices and the assignment:
\* the four cost matrices and the assignment of item n are those of the batch
\* made of item n alone, and time(n,i,j) is the squared difference between the
\* time scalars of expert i and prediction j of item n.
C14_ItemsIndependent ==
    CostsBuilt =>
        LET P == traj_size_pos_ctrl_pts
            Y == traj_size_yaw_ctrl_pts
        IN  \A n \in 1..CallN :
                LET a == ItemAlone(acts, n)
                    p == ItemAlone(pred_acts, n)
                IN  /\ distance_matrix[n] = DistanceMatrix(a, p)[1]
                    /\ distance_pos_matrix[n] = DistancePosMatrix(a, p, P)[1]
                    /\ distance_yaw_matrix[n] = DistanceYawMatrix(a, p, P, Y)[1]
                    /\ distance_time_matrix[n] = DistanceTimeMatrix(a, p)[1]
                    /\ \A i, j \in 1..CallK :
                          distance_time_matrix[n][i][j] =
                              RSq(RSub(TimeScalar(acts[n][i]), TimeScalar(pred_acts[n][j])))
                    /\ (AlphaBuilt /\ CallK > 1) =>
                          alpha_matrix[n] =
                              AssignItem(th_zeros(1, CallK)[1],
                                         DistancePosMatrix(a, p, P)[1], a, 1)

\* Expert i of item n takes part in the assignment: it has a match.
TakesPart(n, i) == OnesInRow(n, i) # {}
RoundedIndicator(n, i) == Round(Indicator(n, i))

\* C15 (as amended): for K > 1 an expert row is left out of the assignment,
\* and gets no match, if and only if its existence indicator rounds to -1;
\* an expert whose indicator rounds to any other value (0 or +1, say) takes
\* part and is matched to exactly one prediction.
C15_Participation ==
    (AlphaBuilt /\ CallK > 1) =>
        \A n \in 1..CallN : \A i \in 1..CallK :
            /\ TakesPart(n, i) <=> RoundedIndicator(n, i) # I(-1)
            /\ Cardinality(OnesInRow(n, i)) <= 1

\* C15 as stated: for K > 1 an expert row takes part in the assignment if
\* and only if its existence indicator rounds to +1.
C15_AsStated ==
    (AlphaBuilt /\ CallK > 1) =>
        \A n \in 1..CallN : \A i \in 1..CallK :
            TakesPart(n, i) <=> RoundedIndicator(n, i) = One

\* A call has returned on an item whose first expert has an indicator that
\* is not a whole number and rounds to 0, and has a match, and whose second
\* expert has an indicator that is not a whole number and rounds to -1, and
\* has none.
C15_Witness ==
    /\ Returned /\ CallK = 2
    /\ Indicator(1, 1)[2] < 0 /\ RoundedIndicator(1, 1) = Zero /\ TakesPart(1, 1)
    /\ Indicator(1, 2)[2] < 0 /\ RoundedIndicator(1, 2) = I(-1) /\ ~TakesPart(1, 2)

====
